---------------------------- MODULE Spec2Model ----------------------------
(***************************************************************************)
(* Model of greenery's fsm.py: the fsm value type (constructor and its     *)
(* validation), accepts, equivalent / replace / automerge, the generic     *)
(* _crawl construction, the operators + | & star *, and pattern().         *)
(*                                                                         *)
(* An automaton is a record                                                *)
(*   [alphabet, states, initial, finals, map]                              *)
(* with map a function from state to row and a row a function from symbol  *)
(* to state (Python: dict of dicts).  State labels are opaque hashable     *)
(* values in Python; here they are integers, the labels "oblivion" and     *)
(* None of the unit tests being written Oblivion (-1) and NoneState (-2).  *)
(***************************************************************************)
EXTENDS Integers, Sequences, FiniteSets, TLC

VARIABLES
    pc,           \* <<operation, position>>: position is "call", "returned", "raised", ...
    self,         \* left operand / receiver of the method under way
    other,        \* right operand of a binary operator, or NoFsm
    multiplier,   \* the (min, max) pair handed to __mul__, or <<>>
    result,       \* the value the call returned (an fsm, an expression), or NoFsm
    new,          \* automerge's local "new"
    keepMerging,  \* automerge's local "keepMerging"
    equations,    \* pattern's local "equations"
    caller,       \* the objects the caller of fsm(...) holds
    fsmObj,       \* the constructed object's own attributes (copies made by set())
    raised        \* the exception the call raised, or "none"

vars == <<pc, self, other, multiplier, result, new, keepMerging, equations, caller, fsmObj, raised>>

-----------------------------------------------------------------------------
(* Bounds of the model. *)

\* states of an enumerated operand of a binary operator are 0 .. MaxStates-1
MaxStates == 2

\* symbol sequences the claims are checked on have at most this length
MaxWordLen == 4

\* min and a finite max of a multiplier are at most this
MaxRep == 2

\* the constructor is called with state labels 0 .. MaxCtorStates-1
MaxCtorStates == 2

\* states of an enumerated receiver of automerge() are 0 .. MaxMergeStates-1
MaxMergeStates == 3

-----------------------------------------------------------------------------
(* Values. *)

NoFsm == [none |-> TRUE]

Oblivion == -1

NoneState == -2

\* max = None of a multiplier
NoMax == -1

\* the symbol universe in the order of sorted(alphabet, key=str)
SymbolOrder == <<"0", "1", "a", "b", "c">>

Symbols == {SymbolOrder[k] : k \in 1..Len(SymbolOrder)}

\* alphabet of the enumerated automata
AB == {"a", "b"}

\* sorted(alphabet, key=str)
Sorted(alphabet) == SelectSeq(SymbolOrder, LAMBDA s : s \in alphabet)

Fsm(alphabet, states, initial, finals, map) ==
    [alphabet |-> alphabet, states |-> states, initial |-> initial,
     finals |-> finals, map |-> map]

\* every symbol sequence over alphabet of length at most n
Words(alphabet, n) == UNION {[1..k -> alphabet] : k \in 0..n}

-----------------------------------------------------------------------------
(* fsm.accepts *)

RECURSIVE Run(_, _, _, _)
\* the state reached from state by consuming input[k..]
Run(M, state, input, k) ==
    IF k > Len(input) THEN state
    ELSE Run(M, M.map[state][input[k]], input, k + 1)

Accepts(M, input) == Run(M, M.initial, input, 1) \in M.finals

\* the state-level variant: acceptance when state is taken as the start state
AcceptsFrom(M, state, input) == Run(M, state, input, 1) \in M.finals

-----------------------------------------------------------------------------
(* fsm.equivalent, fsm.replace, fsm.automerge *)

\* equivalent() without its finality test
EquivalentNoFinality(M, state1, state2) ==
    \A symbol \in M.alphabet :
        LET n1 == M.map[state1][symbol]
            n2 == M.map[state2][symbol]
            next1 == IF n1 = state2 THEN state1 ELSE n1
            next2 == IF n2 = state2 THEN state1 ELSE n2
        IN  next1 = next2

\* equivalent() answering True at the first symbol on which the two agree
EquivalentAnySymbol(M, state1, state2) ==
    /\ (state1 \in M.finals) = (state2 \in M.finals)
    /\ \E symbol \in M.alphabet :
          LET n1 == M.map[state1][symbol]
              n2 == M.map[state2][symbol]
              next1 == IF n1 = state2 THEN state1 ELSE n1
              next2 == IF n2 = state2 THEN state1 ELSE n2
          IN  next1 = next2

Equivalent(M, state1, state2) ==
    /\ (state1 \in M.finals) = (state2 \in M.finals)
    /\ \A symbol \in M.alphabet :
          LET n1 == M.map[state1][symbol]
              n2 == M.map[state2][symbol]
              next1 == IF n1 = state2 THEN state1 ELSE n1
              next2 == IF n2 = state2 THEN state1 ELSE n2
          IN  next1 = next2

\* lookups[s] of replace
Lookup(this, that, s) == IF s = this THEN that ELSE s

\* replace() that renames the rows' keys but not the transitions' targets
ReplaceKeysOnly(M, this, that, last) ==
    LET keys == {Lookup(this, that, s) : s \in DOMAIN M.map}
        src(k) == IF k = that /\ this \in DOMAIN M.map /\ that \in DOMAIN M.map
                  THEN last
                  ELSE IF k = that /\ this \in DOMAIN M.map THEN this ELSE k
    IN  Fsm(M.alphabet,
            {Lookup(this, that, s) : s \in M.states},
            Lookup(this, that, M.initial),
            {Lookup(this, that, s) : s \in M.finals},
            [k \in keys |-> M.map[src(k)]])

\* replace(this, that).  Two rows of self.map may be rewritten to the same key
\* (this and that both rows of the table); the dict keeps the row that comes
\* later in the table's iteration order, named by last.
Replace(M, this, that, last) ==
    LET keys == {Lookup(this, that, s) : s \in DOMAIN M.map}
        src(k) == IF k = that /\ this \in DOMAIN M.map /\ that \in DOMAIN M.map
                  THEN last
                  ELSE IF k = that /\ this \in DOMAIN M.map THEN this ELSE k
    IN  Fsm(M.alphabet,
            {Lookup(this, that, s) : s \in M.states},
            Lookup(this, that, M.initial),
            {Lookup(this, that, s) : s \in M.finals},
            [k \in keys |->
                [a \in DOMAIN M.map[src(k)] |->
                    Lookup(this, that, M.map[src(k)][a])]])

\* trymerge with its "return False, self" inside the outer loop: only the
\* first state of the scan is ever compared
MergePairsFirstOnly(M) ==
    {p \in M.states \X M.states :
        /\ p[1] = CHOOSE s \in M.states : \A t \in M.states : s <= t
        /\ p[1] # p[2]
        /\ Equivalent(M, p[1], p[2])}

\* trymerge without its "if that == this: continue"
MergePairsWithSelf(M) ==
    {p \in M.states \X M.states : Equivalent(M, p[1], p[2])}

\* the pairs (this, that) on which trymerge's scan can stop
MergePairs(M) ==
    {p \in M.states \X M.states : p[1] # p[2] /\ Equivalent(M, p[1], p[2])}

\* one iteration of trymerge that finds a pair: every automaton it can return
\* (the scan order of a set is the implementation's)
MergeSteps(M) ==
    UNION {{Replace(M, p[1], p[2], last) : last \in {p[1], p[2]}} : p \in MergePairs(M)}

RECURSIVE MergeClosure(_, _)
MergeClosure(frontier, done) ==
    IF frontier = {} THEN done
    ELSE MergeClosure(UNION {MergeSteps(X) : X \in frontier},
                      done \cup {X \in frontier : MergePairs(X) = {}})

\* every automaton automerge() can return
AutomergeResults(M) == MergeClosure({M}, {})

-----------------------------------------------------------------------------
(* _crawl.  The closures isFinal and getNext an operator hands to _crawl    *)
(* are named by ctx: ctx.op says which operator built them, ctx.self and   *)
(* ctx.other (ctx.omegaState for star) are what they captured.             *)

\* __add__: superstates are sets of <<fsmId, state>>
\* without the jump into other when self.initial is final
AddInitialNoJump(A, B) == {<<0, A.initial>>}

AddInitial(A, B) ==
    IF A.initial \in A.finals
    THEN {<<0, A.initial>>, <<1, B.initial>>}
    ELSE {<<0, A.initial>>}

AddIsFinal(A, B, currentState) ==
    \E t \in currentState :
        \/ t[1] = 0 /\ t[2] \in A.finals /\ B.initial \in B.finals
        \/ t[1] = 1 /\ t[2] \in B.finals

AddGetNext(A, B, currentState, symbol) ==
    UNION {IF t[1] = 0
           THEN {<<0, A.map[t[2]][symbol]>>} \cup
                (IF A.map[t[2]][symbol] \in A.finals THEN {<<1, B.initial>>} ELSE {})
           ELSE {<<1, B.map[t[2]][symbol]>>} : t \in currentState}

\* __or__ and __and__: superstates are pairs
ProductInitial(A, B) == <<A.initial, B.initial>>

ProductGetNext(A, B, currentState, symbol) ==
    <<A.map[currentState[1]][symbol], B.map[currentState[2]][symbol]>>

\* "all" where "any" is meant
OrIsFinalAll(A, B, currentState) ==
    currentState[1] \in A.finals /\ currentState[2] \in B.finals

OrIsFinal(A, B, currentState) ==
    currentState[1] \in A.finals \/ currentState[2] \in B.finals

AndIsFinal(A, B, currentState) ==
    currentState[1] \in A.finals /\ currentState[2] \in B.finals

\* star: superstates are sets of states of self and omegaState
RECURSIVE FirstFree(_, _)
FirstFree(states, n) == IF n \in states THEN FirstFree(states, n + 1) ELSE n

OmegaState(A) == FirstFree(A.states, 0)

StarInitial(A) == {OmegaState(A)}

StarGetNext(A, currentState, symbol) ==
    UNION {LET s == IF state = OmegaState(A) THEN A.initial ELSE state
               nextAState == A.map[s][symbol]
           IN  {nextAState} \cup
               (IF nextAState \in A.finals THEN {OmegaState(A)} ELSE {})
           : state \in currentState}

\* the naive construction: the initial state itself marks acceptance
StarIsFinalNaive(A, currentState) ==
    OmegaState(A) \in currentState \/ A.initial \in currentState

StarIsFinal(A, currentState) == OmegaState(A) \in currentState

IsFinal(ctx, currentState) ==
    CASE ctx.op = "add"  -> AddIsFinal(ctx.self, ctx.other, currentState)
      [] ctx.op = "or"   -> OrIsFinal(ctx.self, ctx.other, currentState)
      [] ctx.op = "and"  -> AndIsFinal(ctx.self, ctx.other, currentState)
      [] ctx.op = "star" -> StarIsFinal(ctx.self, currentState)

GetNext(ctx, currentState, symbol) ==
    CASE ctx.op = "add"  -> AddGetNext(ctx.self, ctx.other, currentState, symbol)
      [] ctx.op = "or"   -> ProductGetNext(ctx.self, ctx.other, currentState, symbol)
      [] ctx.op = "and"  -> ProductGetNext(ctx.self, ctx.other, currentState, symbol)
      [] ctx.op = "star" -> StarGetNext(ctx.self, currentState, symbol)

\* states.index(nextState), 0 for ValueError (positions are 1-based here)
IndexOf(seq, x) ==
    IF \E j \in 1..Len(seq) : seq[j] = x
    THEN CHOOSE j \in 1..Len(seq) : seq[j] = x
    ELSE 0

RECURSIVE CrawlRow(_, _, _, _, _, _)
\* the inner loop over sorted(alphabet): the grown list and the row map[i]
CrawlRow(ctx, state, syms, k, states, row) ==
    IF k > Len(syms) THEN [states |-> states, row |-> row]
    ELSE LET nextState == GetNext(ctx, state, syms[k])
             found == IndexOf(states, nextState)
             states2 == IF found = 0 THEN Append(states, nextState) ELSE states
             j == IF found = 0 THEN Len(states) ELSE found - 1
         IN  CrawlRow(ctx, state, syms, k + 1, states2, row @@ (syms[k] :> j))

RECURSIVE CrawlLoop(_, _, _, _, _, _)
\* the outer loop "while i < len(states)"; i is the 0-based index of the code
CrawlLoop(ctx, alphabet, i, states, finals, map) ==
    IF i >= Len(states)
    THEN Fsm(alphabet, 0..(Len(states) - 1), 0, finals, map)
    ELSE LET state == states[i + 1]
             r == CrawlRow(ctx, state, Sorted(alphabet), 1, states, <<>>)
         IN  CrawlLoop(ctx, alphabet, i + 1, r.states,
                       IF IsFinal(ctx, state) THEN finals \cup {i} ELSE finals,
                       map @@ (i :> r.row))

\* the automaton _crawl builds before it calls automerge
Crawled(alphabet, initial, ctx) ==
    CrawlLoop(ctx, alphabet, 0, <<initial>>, {}, <<>>)

\* every automaton _crawl can return
Crawl(alphabet, initial, ctx) == AutomergeResults(Crawled(alphabet, initial, ctx))

-----------------------------------------------------------------------------
(* epsilon, null and the automata of the unit tests. *)

Null(alphabet) ==
    Fsm(alphabet, {0}, 0, {}, (0 :> [symbol \in alphabet |-> 0]))

Epsilon(alphabet) ==
    Fsm(alphabet, {0, 1}, 0, {0},
        (0 :> [symbol \in alphabet |-> 1]) @@ (1 :> [symbol \in alphabet |-> 1]))

\* the unit tests' a: accepts "a" only
FixA ==
    Fsm(AB, {0, 1, Oblivion}, 0, {1},
        (0 :> ("a" :> 1 @@ "b" :> Oblivion)) @@
        (1 :> ("a" :> Oblivion @@ "b" :> Oblivion)) @@
        (Oblivion :> ("a" :> Oblivion @@ "b" :> Oblivion)))

\* the unit tests' b: accepts "b" only
FixB ==
    Fsm(AB, {0, 1, Oblivion}, 0, {1},
        (0 :> ("a" :> Oblivion @@ "b" :> 1)) @@
        (1 :> ("a" :> Oblivion @@ "b" :> Oblivion)) @@
        (Oblivion :> ("a" :> Oblivion @@ "b" :> Oblivion)))

\* int5A and int5B ("[bc]*" and "c"), without the wildcard symbol
Int5A ==
    Fsm({"a", "b", "c"}, {0, 1}, 1, {1},
        (0 :> ("a" :> 0 @@ "b" :> 0 @@ "c" :> 0)) @@
        (1 :> ("a" :> 0 @@ "b" :> 1 @@ "c" :> 1)))

Int5B ==
    Fsm({"a", "b", "c"}, {0, 1, 2}, 1, {0},
        (0 :> ("a" :> 2 @@ "b" :> 2 @@ "c" :> 2)) @@
        (1 :> ("a" :> 2 @@ "b" :> 2 @@ "c" :> 0)) @@
        (2 :> ("a" :> 2 @@ "b" :> 2 @@ "c" :> 2)))

\* the operand of "starred": a*ba
StarMe ==
    Fsm(AB, {0, 1, 2, Oblivion}, 0, {2},
        (0 :> ("a" :> 0 @@ "b" :> 1)) @@
        (1 :> ("a" :> 2 @@ "b" :> Oblivion)) @@
        (2 :> ("a" :> Oblivion @@ "b" :> Oblivion)) @@
        (Oblivion :> ("a" :> Oblivion @@ "b" :> Oblivion)))

\* mergeMe / merged: "0*1 in disguise"
MergeMe ==
    Fsm({"0", "1"}, {1, 2, 3, 4, Oblivion}, 1, {4},
        (1 :> ("0" :> 2 @@ "1" :> 4)) @@
        (2 :> ("0" :> 3 @@ "1" :> 4)) @@
        (3 :> ("0" :> 3 @@ "1" :> 4)) @@
        (4 :> ("0" :> Oblivion @@ "1" :> Oblivion)) @@
        (Oblivion :> ("0" :> Oblivion @@ "1" :> Oblivion)))

\* mergeMe2: (0|1)0*
MergeMe2 ==
    Fsm({"0", "1"}, {1, 2, 3, 4}, 1, {2, 3},
        (1 :> ("0" :> 2 @@ "1" :> 3)) @@
        (2 :> ("0" :> 2 @@ "1" :> 4)) @@
        (3 :> ("0" :> 3 @@ "1" :> 4)) @@
        (4 :> ("0" :> 4 @@ "1" :> 4)))

\* replaceMe
ReplaceMe ==
    Fsm({"0", "1"}, {0, 1, 2}, 0, {0},
        (0 :> ("0" :> 0 @@ "1" :> 1)) @@
        (1 :> ("0" :> 1 @@ "1" :> 2)) @@
        (2 :> ("0" :> 2 @@ "1" :> 0)))

\* the automaton of the pattern() test: 0[01]
PatternMe ==
    Fsm({"0", "1"}, {0, 1, 2, 3}, 3, {1},
        (0 :> ("0" :> 1 @@ "1" :> 1)) @@
        (1 :> ("0" :> 2 @@ "1" :> 2)) @@
        (2 :> ("0" :> 2 @@ "1" :> 2)) @@
        (3 :> ("0" :> 0 @@ "1" :> 2)))

\* every automaton fsm(...) accepts with alphabet AB and states 0 .. k-1, k <= n
EnumFsms(n) ==
    UNION {{Fsm(AB, 0..(k - 1), i, F, m) :
               i \in 0..(k - 1), F \in SUBSET (0..(k - 1)),
               m \in [0..(k - 1) -> [AB -> 0..(k - 1)]]} : k \in 1..n}

-----------------------------------------------------------------------------
(* The operators __add__, __or__, __and__: what a call returns or raises.   *)

\* the test as "self has a symbol that other lacks"
AlphabetsDifferSelfOnly(A, B) == ~(A.alphabet \subseteq B.alphabet)

AlphabetsDiffer(A, B) == B.alphabet # A.alphabet

AddResults(A, B) ==
    Crawl(A.alphabet, AddInitial(A, B), [op |-> "add", self |-> A, other |-> B])

OrResults(A, B) ==
    Crawl(A.alphabet, ProductInitial(A, B), [op |-> "or", self |-> A, other |-> B])

AndResults(A, B) ==
    Crawl(A.alphabet, ProductInitial(A, B), [op |-> "and", self |-> A, other |-> B])

\* the variables no operator call touches
OperandsUnchanged == UNCHANGED <<self, other, multiplier, new, keepMerging, equations, caller, fsmObj>>

Raise(exception) ==
    /\ pc' = <<pc[1], "raised">>
    /\ raised' = exception
    /\ result' = NoFsm

Return(value) ==
    /\ pc' = <<pc[1], "returned">>
    /\ raised' = "none"
    /\ result' = value

\* self + other
Add ==
    /\ pc = <<"add", "call">>
    /\ IF AlphabetsDiffer(self, other)
       THEN Raise("Exception")
       ELSE \E R \in AddResults(self, other) : Return(R)
    /\ OperandsUnchanged

\* self | other
Or ==
    /\ pc = <<"or", "call">>
    /\ IF AlphabetsDiffer(self, other)
       THEN Raise("Exception")
       ELSE \E R \in OrResults(self, other) : Return(R)
    /\ OperandsUnchanged

\* self & other
And ==
    /\ pc = <<"and", "call">>
    /\ IF AlphabetsDiffer(self, other)
       THEN Raise("Exception")
       ELSE \E R \in AndResults(self, other) : Return(R)
    /\ OperandsUnchanged

-----------------------------------------------------------------------------
(* star and __mul__ *)

StarResults(A) ==
    Crawl(A.alphabet, StarInitial(A), [op |-> "star", self |-> A])

\* output += B for every automaton output can be
AddAll(outputs, B) == UNION {AddResults(X, B) : X \in outputs}

RECURSIVE AddTimes(_, _, _)
\* "for i in range(n): output += B"
AddTimes(outputs, B, n) ==
    IF n <= 0 THEN outputs ELSE AddTimes(AddAll(outputs, B), B, n - 1)

\* the optional copies counted from 0 instead of from min
MulResultsFromZero(A, min, max) ==
    LET forced == AddTimes({Epsilon(A.alphabet)}, A, min)
    IN  IF max = NoMax
        THEN UNION {AddAll(forced, S) : S \in StarResults(A)}
        ELSE UNION {AddTimes(forced, q, max) : q \in OrResults(A, Epsilon(A.alphabet))}

\* self * (min, max)
MulResults(A, min, max) ==
    LET forced == AddTimes({Epsilon(A.alphabet)}, A, min)
    IN  IF max = NoMax
        THEN UNION {AddAll(forced, S) : S \in StarResults(A)}
        ELSE UNION {AddTimes(forced, q, max - min) : q \in OrResults(A, Epsilon(A.alphabet))}

\* self.star()
Star ==
    /\ pc = <<"star", "call">>
    /\ \E R \in StarResults(self) : Return(R)
    /\ OperandsUnchanged

\* self * multiplier
Mul ==
    /\ pc = <<"mul", "call">>
    /\ \E R \in MulResults(self, multiplier[1], multiplier[2]) : Return(R)
    /\ OperandsUnchanged

\* the unit-test automata over {a, b}
FixturesAB == {FixA, FixB, StarMe, Epsilon(AB), Null(AB)}

\* the multipliers (min, max) with 0 <= min and max absent or min <= max
Multipliers ==
    {<<min, max>> : min \in 0..MaxRep, max \in {NoMax} \cup (0..MaxRep)} \
        {m \in (0..MaxRep) \X (0..MaxRep) : m[2] < m[1]}

InitStar ==
    /\ pc = <<"star", "call">>
    /\ self \in EnumFsms(MaxStates) \cup FixturesAB
    /\ other = NoFsm
    /\ multiplier = <<>>
    /\ result = NoFsm
    /\ new = NoFsm
    /\ keepMerging = FALSE
    /\ equations = <<>>
    /\ caller = NoFsm
    /\ fsmObj = NoFsm
    /\ raised = "none"

SpecStar == InitStar /\ [][Star]_vars

InitMul ==
    /\ pc = <<"mul", "call">>
    /\ self \in EnumFsms(MaxStates) \cup FixturesAB
    /\ other = NoFsm
    /\ multiplier \in Multipliers
    /\ result = NoFsm
    /\ new = NoFsm
    /\ keepMerging = FALSE
    /\ equations = <<>>
    /\ caller = NoFsm
    /\ fsmObj = NoFsm
    /\ raised = "none"

SpecMul == InitMul /\ [][Mul]_vars

\* the unit-test operands of the binary operators
FixturesBinary == {FixA, FixB, Int5A, Int5B, Epsilon(AB), Null(AB)}

InitBinary ==
    /\ pc \in {<<"add", "call">>, <<"or", "call">>, <<"and", "call">>}
    /\ self \in EnumFsms(MaxStates) \cup FixturesBinary
    /\ other \in EnumFsms(MaxStates) \cup FixturesBinary
    /\ multiplier = <<>>
    /\ result = NoFsm
    /\ new = NoFsm
    /\ keepMerging = FALSE
    /\ equations = <<>>
    /\ caller = NoFsm
    /\ fsmObj = NoFsm
    /\ raised = "none"

NextBinary == Add \/ Or \/ And

SpecBinary == InitBinary /\ [][NextBinary]_vars

-----------------------------------------------------------------------------
(* The same three operators, one step of the call at a time: the alphabet  *)
(* test, _crawl's exploration, then automerge.  new holds the automaton    *)
(* _crawl has built.                                                       *)

BinaryOps == {"add", "or", "and"}

\* newInitial of the operator pc names
OperatorInitial ==
    IF pc[1] = "add" THEN AddInitial(self, other) ELSE ProductInitial(self, other)

\* "if other.alphabet != self.alphabet: raise Exception(...)"
CheckAlphabets ==
    /\ pc[1] \in BinaryOps
    /\ pc[2] = "call"
    /\ IF AlphabetsDiffer(self, other)
       THEN Raise("Exception")
       ELSE /\ pc' = <<pc[1], "crawl">>
            /\ UNCHANGED <<raised, result>>
    /\ OperandsUnchanged

\* _crawl explores the superstates and constructs the automaton
CrawlStates ==
    /\ pc[1] \in BinaryOps
    /\ pc[2] = "crawl"
    /\ new' = Crawled(self.alphabet, OperatorInitial,
                      [op |-> pc[1], self |-> self, other |-> other])
    /\ pc' = <<pc[1], "automerge">>
    /\ UNCHANGED <<self, other, multiplier, keepMerging, equations, caller, fsmObj, raised, result>>

\* "return new.automerge()"
CrawlReturn ==
    /\ pc[1] \in BinaryOps
    /\ pc[2] = "automerge"
    /\ \E R \in AutomergeResults(new) : Return(R)
    /\ OperandsUnchanged

NextBinarySteps == CheckAlphabets \/ CrawlStates \/ CrawlReturn

SpecBinarySteps == InitBinary /\ [][NextBinarySteps]_vars

-----------------------------------------------------------------------------
(* The expression algebra of the lego module, which pattern() emits into.  *)
(* An expression is modelled by what it denotes: the set of the symbol     *)
(* sequences of length at most MaxWordLen that it matches.                 *)

LegoNothing == {}

LegoEmptystring == {<<>>}

LegoCharclass(symbols) == {<<symbol>> : symbol \in symbols}

\* x | y
LegoAlt(x, y) == x \cup y

\* x + y
LegoConc(x, y) ==
    {u \o v : <<u, v>> \in {p \in x \X y : Len(p[1]) + Len(p[2]) <= MaxWordLen}}

RECURSIVE LegoStarFrom(_, _)
LegoStarFrom(x, acc) ==
    LET more == acc \cup LegoConc(acc, x)
    IN  IF more = acc THEN acc ELSE LegoStarFrom(x, more)

\* x * star
LegoStar(x) == LegoStarFrom(x, {<<>>})

-----------------------------------------------------------------------------
(* pattern().  An equation is [right, lefts, raised]: lefts maps a state-   *)
(* set, or Outside, to the expression of the ways from it into right.      *)

OutsideMark == -3

\* the key "outside" (None) of lefts: no set of states
Outside == {OutsideMark}

\* the states from which symbol leads into right
LeftOf(M, right, symbol) ==
    {prev \in DOMAIN M.map : M.map[prev][symbol] \in right}

\* equation.__init__
Equation(right, M) ==
    LET keys == {LeftOf(M, right, symbol) : symbol \in M.alphabet}
        bySymbols == [left \in keys |->
                        LegoCharclass({symbol \in M.alphabet : LeftOf(M, right, symbol) = left})]
    IN  [right |-> right,
         lefts |-> IF M.initial \in right
                   THEN [left \in keys \cup {Outside} |->
                            IF left = Outside THEN LegoEmptystring ELSE bySymbols[left]]
                   ELSE bySymbols,
         raised |-> FALSE]

\* applyLoops that drops the self-transition without appending its closure
ApplyLoopsDropOnly(eq) ==
    IF eq.right \notin DOMAIN eq.lefts THEN eq
    ELSE [eq EXCEPT !.lefts = [left \in DOMAIN eq.lefts \ {eq.right} |-> eq.lefts[left]]]

\* equation.applyLoops
ApplyLoops(eq) ==
    IF eq.right \notin DOMAIN eq.lefts THEN eq
    ELSE LET loop == LegoStar(eq.lefts[eq.right])
         IN  [eq EXCEPT !.lefts =
                 [left \in DOMAIN eq.lefts \ {eq.right} |-> LegoConc(eq.lefts[left], loop)]]

\* eliminate() without its "del self.lefts[other.right]"
EliminateKeepsRef(eq, otherEq) ==
    IF otherEq.right \notin DOMAIN eq.lefts THEN eq
    ELSE IF otherEq.right \in DOMAIN otherEq.lefts
    THEN [eq EXCEPT !.raised = TRUE]
    ELSE LET through == eq.lefts[otherEq.right]
             keys == DOMAIN eq.lefts \cup DOMAIN otherEq.lefts
         IN  [eq EXCEPT !.lefts =
                 [left \in keys |->
                     IF left \notin DOMAIN otherEq.lefts THEN eq.lefts[left]
                     ELSE IF left \notin DOMAIN eq.lefts
                     THEN LegoConc(otherEq.lefts[left], through)
                     ELSE LegoAlt(eq.lefts[left], LegoConc(otherEq.lefts[left], through))]]

\* equation.eliminate: eq.eliminate(otherEq)
Eliminate(eq, otherEq) ==
    IF otherEq.right \notin DOMAIN eq.lefts THEN eq
    ELSE IF otherEq.right \in DOMAIN otherEq.lefts
    THEN [eq EXCEPT !.raised = TRUE]
    ELSE LET through == eq.lefts[otherEq.right]
             keys == (DOMAIN eq.lefts \cup DOMAIN otherEq.lefts) \ {otherEq.right}
         IN  [eq EXCEPT !.lefts =
                 [left \in keys |->
                     IF left \notin DOMAIN otherEq.lefts THEN eq.lefts[left]
                     ELSE IF left \notin DOMAIN eq.lefts
                     THEN LegoConc(otherEq.lefts[left], through)
                     ELSE LegoAlt(eq.lefts[left], LegoConc(otherEq.lefts[left], through))]]

\* the orders in which a loop can visit the members of S
Orders(S) ==
    {f \in [1..Cardinality(S) -> S] : \A i, j \in 1..Cardinality(S) : f[i] = f[j] => i = j}

RECURSIVE Discover(_, _, _)
\* "while i < len(equations)": every list of right sides the loop can end
\* with (the order in which a dict yields its keys is the implementation's)
Discover(M, rights, i) ==
    IF i > Len(rights) THEN {rights}
    ELSE LET found == {left \in DOMAIN Equation(rights[i], M).lefts :
                          /\ left # Outside
                          /\ \A k \in 1..Len(rights) : rights[k] # left}
         IN  UNION {Discover(M, rights \o order, i + 1) : order \in Orders(found)}

RECURSIVE Backfill(_, _)
\* "for i in reversed(range(len(equations)))", i counted from 1
Backfill(eqs, i) ==
    IF i = 0 THEN eqs
    ELSE LET solved == ApplyLoops(eqs[i])
         IN  Backfill([j \in 1..Len(eqs) |->
                          IF j < i THEN Eliminate(eqs[j], solved)
                          ELSE IF j = i THEN solved
                          ELSE eqs[j]],
                      i - 1)

\* the equations when the backward substitution has finished
Solved(M, rights) ==
    Backfill([k \in 1..Len(rights) |-> Equation(rights[k], M)], Len(rights))

\* "try: return equations[0].lefts[outside] / except KeyError: return nothing"
PatternOf(eqs) ==
    IF Outside \in DOMAIN eqs[1].lefts
    THEN eqs[1].lefts[Outside]
    ELSE LegoNothing

\* self.pattern()
Pattern ==
    /\ pc = <<"pattern", "call">>
    /\ \E rights \in Discover(self, <<self.finals>>, 1) :
          LET eqs == Solved(self, rights)
          IN  IF \E k \in 1..Len(eqs) : eqs[k].raised
              THEN /\ pc' = <<"pattern", "raised">>
                   /\ raised' = "Exception"
                   /\ result' = NoFsm
              ELSE /\ pc' = <<"pattern", "returned">>
                   /\ raised' = "none"
                   /\ result' = PatternOf(eqs)
    /\ UNCHANGED <<self, other, multiplier, new, keepMerging, equations, caller, fsmObj>>

InitPattern ==
    /\ pc = <<"pattern", "call">>
    /\ self \in EnumFsms(MaxStates) \cup {PatternMe, FixA, StarMe, MergeMe2}
    /\ other = NoFsm
    /\ multiplier = <<>>
    /\ result = NoFsm
    /\ new = NoFsm
    /\ keepMerging = FALSE
    /\ equations = <<>>
    /\ caller = NoFsm
    /\ fsmObj = NoFsm
    /\ raised = "none"

SpecPattern == InitPattern /\ [][Pattern]_vars

-----------------------------------------------------------------------------
(* pattern(), one loop at a time: the discovery of the equations, the      *)
(* backward substitution, the return.                                      *)

PatternUnchanged == UNCHANGED <<self, other, multiplier, new, keepMerging, caller, fsmObj>>

\* "equations = [equation(self.finals, self)]" and the while loop after it
PatternDiscover ==
    /\ pc = <<"pattern", "call">>
    /\ \E rights \in Discover(self, <<self.finals>>, 1) :
          equations' = [k \in 1..Len(rights) |-> Equation(rights[k], self)]
    /\ pc' = <<"pattern", "backfill">>
    /\ UNCHANGED <<result, raised>>
    /\ PatternUnchanged

\* "for i in reversed(range(len(equations)))": the loop runs to its end, or
\* an eliminate() in it raises
PatternBackfill ==
    /\ pc = <<"pattern", "backfill">>
    /\ LET filled == Backfill(equations, Len(equations))
       IN  /\ equations' = filled
           /\ IF \E k \in 1..Len(filled) : filled[k].raised
              THEN /\ pc' = <<"pattern", "raised">>
                   /\ raised' = "Exception"
              ELSE /\ pc' = <<"pattern", "filled">>
                   /\ raised' = "none"
    /\ UNCHANGED result
    /\ PatternUnchanged

\* the try / except KeyError at the end
PatternReturn ==
    /\ pc = <<"pattern", "filled">>
    /\ pc' = <<"pattern", "returned">>
    /\ result' = PatternOf(equations)
    /\ UNCHANGED <<raised, equations>>
    /\ PatternUnchanged

NextPatternSteps == PatternDiscover \/ PatternBackfill \/ PatternReturn

SpecPatternSteps == InitPattern /\ [][NextPatternSteps]_vars

-----------------------------------------------------------------------------
(* automerge(), one iteration of its loop at a time. *)

MergeUnchanged == UNCHANGED <<self, other, multiplier, caller, fsmObj, equations>>

\* "new = self; keepMerging = True"
AutomergeStart ==
    /\ pc = <<"automerge", "call">>
    /\ new' = self
    /\ keepMerging' = TRUE
    /\ pc' = <<"automerge", "loop">>
    /\ UNCHANGED <<result, raised>>
    /\ MergeUnchanged

\* an iteration in which trymerge finds an equivalent pair and merges it
TryMergeFound ==
    /\ pc = <<"automerge", "loop">>
    /\ keepMerging
    /\ \E R \in MergeSteps(new) : new' = R
    /\ keepMerging' = TRUE
    /\ UNCHANGED <<pc, result, raised>>
    /\ MergeUnchanged

\* an iteration in which trymerge finds no pair
TryMergeNone ==
    /\ pc = <<"automerge", "loop">>
    /\ keepMerging
    /\ MergePairs(new) = {}
    /\ keepMerging' = FALSE
    /\ UNCHANGED <<pc, new, result, raised>>
    /\ MergeUnchanged

\* "return new"
AutomergeReturn ==
    /\ pc = <<"automerge", "loop">>
    /\ ~keepMerging
    /\ result' = new
    /\ pc' = <<"automerge", "returned">>
    /\ raised' = "none"
    /\ UNCHANGED <<new, keepMerging>>
    /\ MergeUnchanged

\* the automata _crawl hands to automerge() for self + other, the operands
\* having at most n states
CrawledSums(n) ==
    {Crawled(A.alphabet, AddInitial(A, B), [op |-> "add", self |-> A, other |-> B]) :
        A \in EnumFsms(n), B \in EnumFsms(n)}

InitMerge ==
    /\ pc = <<"automerge", "call">>
    /\ self \in EnumFsms(MaxMergeStates) \cup CrawledSums(MaxStates)
                 \cup {MergeMe, MergeMe2, FixA, StarMe}
    /\ other = NoFsm
    /\ multiplier = <<>>
    /\ result = NoFsm
    /\ new = NoFsm
    /\ keepMerging = FALSE
    /\ equations = <<>>
    /\ caller = NoFsm
    /\ fsmObj = NoFsm
    /\ raised = "none"

NextMerge == AutomergeStart \/ TryMergeFound \/ TryMergeNone \/ AutomergeReturn

SpecMerge == InitMerge /\ [][NextMerge]_vars

\* automerge() is one sequential call: a statement that can run does run
SpecMergeFair == SpecMerge /\ WF_vars(NextMerge)

-----------------------------------------------------------------------------
(* fsm.__init__ and fsm.__setattr__.  The caller holds the objects it      *)
(* passes (caller); __init__ copies states and finals with set() and keeps *)
(* the caller's alphabet and map objects themselves, so the automaton is   *)
(* fsmObj's own attributes plus those two references.                      *)

\* the automaton as its methods read it
View ==
    IF fsmObj = NoFsm THEN NoFsm
    ELSE Fsm(caller.alphabet, fsmObj.states, fsmObj.initial, fsmObj.finals, caller.map)

\* line 54
InitialError(M) == M.initial \notin M.states

\* line 56
FinalsError(M) == ~(M.finals \subseteq M.states)

\* the validation loop without its last test (the target's membership)
MapErrorNoTarget(M) ==
    \E state \in M.states :
        \/ state \notin DOMAIN M.map
        \/ \E symbol \in M.alphabet : symbol \notin DOMAIN M.map[state]

\* lines 58-65
MapError(M) ==
    \E state \in M.states :
        \/ state \notin DOMAIN M.map
        \/ \E symbol \in M.alphabet :
               \/ symbol \notin DOMAIN M.map[state]
               \/ M.map[state][symbol] \notin M.states

\* what __init__'s validation raises
Validation(M) ==
    IF InitialError(M) \/ FinalsError(M) \/ MapError(M)
    THEN "BadFsmException"
    ELSE "none"

CtorIds == 0..(MaxCtorStates - 1)

\* dicts from symbols to states
CtorRows(symbols, ids) == UNION {[D -> ids] : D \in SUBSET symbols}

\* dicts from the states in ids to such rows
CtorMaps(symbols, ids) == UNION {[K -> CtorRows(symbols, ids)] : K \in SUBSET ids}

\* the argument lists of a constructor call with the given symbols and state labels
CtorArgs(symbols, ids) ==
    [alphabet : SUBSET symbols, states : SUBSET ids, initial : ids,
     finals : SUBSET ids, map : CtorMaps(symbols, ids)]

OthersUnchanged == UNCHANGED <<self, other, multiplier, new, keepMerging, equations>>

\* fsm(alphabet, states, initial, finals, map)
Construct ==
    /\ pc = <<"fsm", "call">>
    /\ LET built == Fsm(caller.alphabet, caller.states, caller.initial,
                        caller.finals, caller.map)
       IN  IF Validation(built) = "none"
           THEN /\ fsmObj' = [states |-> caller.states, initial |-> caller.initial,
                              finals |-> caller.finals]
                /\ pc' = <<"fsm", "returned">>
                /\ raised' = "none"
           ELSE /\ fsmObj' = NoFsm
                /\ pc' = <<"fsm", "raised">>
                /\ raised' = Validation(built)
    /\ UNCHANGED <<caller, result>>
    /\ OthersUnchanged

\* an attribute assignment on the constructed object: __setattr__ raises
SetAttr ==
    /\ fsmObj # NoFsm
    /\ pc' = <<"setattr", "raised">>
    /\ raised' = "Exception"
    /\ UNCHANGED <<caller, fsmObj, result>>
    /\ OthersUnchanged

\* an operator applied to the constructed object (star, as long as the
\* object is the valid automaton its methods presume)
ApplyStar ==
    /\ fsmObj # NoFsm
    /\ Validation(View) = "none"
    /\ pc' = <<"star", "returned">>
    /\ raised' = "none"
    /\ \E R \in StarResults(View) : result' = R
    /\ UNCHANGED <<caller, fsmObj>>
    /\ OthersUnchanged

\* the caller's statement after the constructor call writes an entry of the
\* dict it passed as map: m[state][symbol] = target
CallerSetsMapEntry ==
    /\ pc = <<"fsm", "returned">>
    /\ \E state \in DOMAIN caller.map, symbol \in AB, target \in CtorIds :
          /\ IF symbol \in DOMAIN caller.map[state]
             THEN caller.map[state][symbol] # target
             ELSE TRUE
          /\ caller' = [caller EXCEPT !.map =
                 [k \in DOMAIN caller.map |->
                     IF k = state
                     THEN [a \in DOMAIN caller.map[k] \cup {symbol} |->
                              IF a = symbol THEN target ELSE caller.map[k][a]]
                     ELSE caller.map[k]]]
    /\ pc' = <<"caller", "mutated">>
    /\ UNCHANGED <<fsmObj, result, raised>>
    /\ OthersUnchanged

\* the caller adds a symbol to the set it passed as alphabet
CallerAddsSymbol ==
    /\ pc = <<"fsm", "returned">>
    /\ \E symbol \in AB \ caller.alphabet :
          caller' = [caller EXCEPT !.alphabet = @ \cup {symbol}]
    /\ pc' = <<"caller", "mutated">>
    /\ UNCHANGED <<fsmObj, result, raised>>
    /\ OthersUnchanged

\* the caller adds a state to the set it passed as states, or as finals:
\* the automaton holds copies
CallerAddsState ==
    /\ pc = <<"fsm", "returned">>
    /\ \E state \in CtorIds :
          \/ state \notin caller.states /\ caller' = [caller EXCEPT !.states = @ \cup {state}]
          \/ state \notin caller.finals /\ caller' = [caller EXCEPT !.finals = @ \cup {state}]
    /\ pc' = <<"caller", "mutated">>
    /\ UNCHANGED <<fsmObj, result, raised>>
    /\ OthersUnchanged

InitCtor ==
    /\ pc = <<"fsm", "call">>
    /\ caller \in CtorArgs(AB, {0, 1}) \cup CtorArgs({"a"}, CtorIds)
    /\ fsmObj = NoFsm
    /\ raised = "none"
    /\ self = NoFsm
    /\ other = NoFsm
    /\ multiplier = <<>>
    /\ result = NoFsm
    /\ new = NoFsm
    /\ keepMerging = FALSE
    /\ equations = <<>>

NextCtor ==
    \/ Construct
    \/ SetAttr
    \/ ApplyStar
    \/ CallerSetsMapEntry
    \/ CallerAddsSymbol
    \/ CallerAddsState

SpecCtor == InitCtor /\ [][NextCtor]_vars

-----------------------------------------------------------------------------
(* A call self.replace(this, that); caller holds its two arguments. *)

\* self.replace(this, that): the automaton is built by fsm(...), which validates
ReplaceCall ==
    /\ pc = <<"replace", "call">>
    /\ \E last \in {caller.this, caller.that} :
          LET built == Replace(self, caller.this, caller.that, last)
          IN  IF Validation(built) = "none"
              THEN Return(built)
              ELSE Raise(Validation(built))
    /\ OperandsUnchanged

\* the values replace() is given as that, besides the receiver's states:
\* None and a label that is no state
FreshStates == {NoneState, MaxMergeStates}

InitReplace ==
    /\ pc = <<"replace", "call">>
    /\ self \in EnumFsms(MaxMergeStates) \cup {ReplaceMe, MergeMe}
    /\ caller \in {args \in [this : self.states, that : self.states \cup FreshStates] :
                       args.this # args.that}
    /\ other = NoFsm
    /\ multiplier = <<>>
    /\ result = NoFsm
    /\ new = NoFsm
    /\ keepMerging = FALSE
    /\ equations = <<>>
    /\ fsmObj = NoFsm
    /\ raised = "none"

SpecReplace == InitReplace /\ [][ReplaceCall]_vars

-----------------------------------------------------------------------------
(* Reference semantics of the operators, on symbol sequences. *)

\* input[i..j]
Slice(input, i, j) == [k \in 1..(j - i + 1) |-> input[i + k - 1]]

\* input = u v with A accepting u and B accepting v
SplitAccepted(A, B, input) ==
    \E n \in 0..Len(input) :
        /\ Accepts(A, Slice(input, 1, n))
        /\ Accepts(B, Slice(input, n + 1, Len(input)))

\* C1: when self + other returns R, R accepts a sequence w over the alphabet
\* exactly when w = u v with self accepting u and other accepting v.
C1_Concatenation ==
    pc = <<"add", "returned">> =>
        \A w \in Words(self.alphabet, MaxWordLen) :
            Accepts(result, w) <=> SplitAccepted(self, other, w)

\* a call self + other has returned where the split point is strictly inside
\* an accepted sequence, self accepts the empty sequence and other does too
C1_Witness ==
    /\ pc = <<"add", "returned">>
    /\ self.initial \in self.finals
    /\ other.initial \in other.finals
    /\ other.finals # other.states
    /\ \E w \in Words(self.alphabet, MaxWordLen) :
          /\ Accepts(result, w)
          /\ ~Accepts(self, w)
          /\ ~Accepts(other, w)
    /\ \E w \in Words(self.alphabet, MaxWordLen) : ~Accepts(result, w)

RECURSIVE InPower(_, _, _)
\* input is the concatenation of exactly k sequences each accepted by A
InPower(A, input, k) ==
    IF k = 0 THEN input = <<>>
    ELSE \E n \in 0..Len(input) :
            /\ Accepts(A, Slice(input, 1, n))
            /\ InPower(A, Slice(input, n + 1, Len(input)), k - 1)

RECURSIVE InStar(_, _)
\* input is the concatenation of zero or more sequences each accepted by A
\* (empty factors add nothing, so the factors are taken non-empty)
InStar(A, input) ==
    \/ input = <<>>
    \/ \E n \in 1..Len(input) :
          /\ Accepts(A, Slice(input, 1, n))
          /\ InStar(A, Slice(input, n + 1, Len(input)))

\* C2: when self.star() returns R, R accepts w exactly when w is the
\* concatenation of zero or more sequences self accepts.
C2_KleeneStar ==
    pc = <<"star", "returned">> =>
        \A w \in Words(self.alphabet, MaxWordLen) :
            Accepts(result, w) <=> InStar(self, w)

\* star() has returned for an automaton that passes through a final state and
\* comes back to its initial state on a sequence the star must reject
C2_Witness ==
    /\ pc = <<"star", "returned">>
    /\ self.initial \notin self.finals
    /\ \E w \in Words(self.alphabet, MaxWordLen) :
          /\ \E n \in 1..(Len(w) - 1) :
                /\ Accepts(self, Slice(w, 1, n))
                /\ Run(self, self.initial, w, 1) = self.initial
          /\ ~Accepts(result, w)
    /\ \E w \in Words(self.alphabet, MaxWordLen) :
          Accepts(result, w) /\ ~Accepts(self, w) /\ w # <<>>

\* C4: when self * (min, max) returns R, R accepts w exactly when w is the
\* concatenation of exactly k sequences self accepts, for some k with
\* min <= k <= max (min <= k when max is absent; more than min + Len(w)
\* factors add only empty ones).
C4_BoundedRepetition ==
    pc = <<"mul", "returned">> =>
        LET min == multiplier[1]
            max == multiplier[2]
        IN  \A w \in Words(self.alphabet, MaxWordLen) :
                Accepts(result, w) <=>
                    \E k \in min..(IF max = NoMax THEN min + Len(w) ELSE max) :
                        InPower(self, w, k)

\* self * (min, max) has returned with 0 < min < max, accepting a sequence
\* self does not accept and rejecting the sequences of fewer than min and of
\* more than max factors
C4_Witness ==
    /\ pc = <<"mul", "returned">>
    /\ 0 < multiplier[1]
    /\ multiplier[1] < multiplier[2]
    /\ \E w \in Words(self.alphabet, MaxWordLen) : Accepts(result, w) /\ ~Accepts(self, w)
    /\ \E w \in Words(self.alphabet, MaxWordLen) :
          InPower(self, w, multiplier[2] + 1) /\ ~Accepts(result, w)
    /\ \E w \in Words(self.alphabet, MaxWordLen) :
          InPower(self, w, multiplier[1] - 1) /\ ~Accepts(result, w)

\* C3: when self | other returns R, R accepts w exactly when self or other
\* does; when self & other returns R, R accepts w exactly when both do.
C3_SetSemantics ==
    /\ pc = <<"or", "returned">> =>
          \A w \in Words(self.alphabet, MaxWordLen) :
              Accepts(result, w) <=> (Accepts(self, w) \/ Accepts(other, w))
    /\ pc = <<"and", "returned">> =>
          \A w \in Words(self.alphabet, MaxWordLen) :
              Accepts(result, w) <=> (Accepts(self, w) /\ Accepts(other, w))

\* a call self & other has returned where the operands' languages overlap
\* without either containing the other
C3_Witness ==
    /\ pc = <<"and", "returned">>
    /\ \E w \in Words(self.alphabet, MaxWordLen) : Accepts(result, w)
    /\ \E w \in Words(self.alphabet, MaxWordLen) : Accepts(self, w) /\ ~Accepts(other, w)
    /\ \E w \in Words(self.alphabet, MaxWordLen) : ~Accepts(self, w) /\ Accepts(other, w)

\* the three conditions of a valid automaton, as the specification states them
InitialInStates(M) == M.initial \in M.states

FinalsInStates(M) == M.finals \subseteq M.states

TableTotal(M) ==
    \A state \in M.states, symbol \in M.alphabet :
        /\ state \in DOMAIN M.map
        /\ symbol \in DOMAIN M.map[state]
        /\ M.map[state][symbol] \in M.states

ArgsAsFsm ==
    Fsm(caller.alphabet, caller.states, caller.initial, caller.finals, caller.map)

\* C5: the expression pattern() returns denotes exactly the sequences the
\* automaton accepts (compared on the sequences of length up to MaxWordLen).
C5_Extraction ==
    pc = <<"pattern", "returned">> =>
        result = {w \in Words(self.alphabet, MaxWordLen) : Accepts(self, w)}

\* pattern() has returned for an automaton with a loop: the expression
\* matches a sequence of the greatest length, does not match every sequence,
\* and more than one equation was solved
C5_Witness ==
    /\ pc = <<"pattern", "returned">>
    /\ \E w \in result : Len(w) = MaxWordLen
    /\ \E w \in Words(self.alphabet, MaxWordLen) : w \notin result
    /\ self.initial \notin self.finals
    /\ \E s \in self.states, symbol \in self.alphabet : self.map[s][symbol] = s

\* C6: a call of fsm(...) raises BadFsmException, and returns no automaton,
\* whenever one of the three conditions fails on its arguments; an automaton
\* it returns satisfies all three.
C6_Validation ==
    pc[1] = "fsm" /\ pc[2] # "call" =>
        /\ ~(InitialInStates(ArgsAsFsm) /\ FinalsInStates(ArgsAsFsm) /\ TableTotal(ArgsAsFsm))
               => (pc[2] = "raised" /\ raised = "BadFsmException" /\ fsmObj = NoFsm)
        /\ pc[2] = "returned" =>
               /\ fsmObj # NoFsm
               /\ InitialInStates(View) /\ FinalsInStates(View) /\ TableTotal(View)

\* the constructor has raised for arguments whose only fault is a transition
\* target outside states
C6_Witness ==
    /\ pc = <<"fsm", "raised">>
    /\ raised = "BadFsmException"
    /\ caller.initial \in caller.states
    /\ caller.finals \subseteq caller.states
    /\ caller.finals # {}
    /\ caller.alphabet = AB
    /\ DOMAIN caller.map = caller.states
    /\ \A state \in caller.states : DOMAIN caller.map[state] = caller.alphabet
    /\ \E state \in caller.states : caller.map[state]["a"] \notin caller.states

\* C7 (the claim as stated): an automaton the constructor returns has a table
\* with rows for exactly its states and entries for exactly its alphabet.
C7_ExactTable ==
    pc = <<"fsm", "returned">> =>
        /\ DOMAIN View.map = View.states
        /\ \A state \in View.states : DOMAIN View.map[state] = View.alphabet

\* C8 (the claim as stated): once constructed, no step changes the
\* automaton's alphabet, states, initial, finals or transition table.
C8_Immutable == [][fsmObj # NoFsm => View' = View]_vars

\* C9: the automaton automerge() returns has no two distinct states that
\* equivalent() relates, and no more states than the receiver.
C9_Fixpoint ==
    pc = <<"automerge", "returned">> =>
        /\ \A s \in result.states, t \in result.states :
              s # t => ~Equivalent(result, s, t)
        /\ Cardinality(result.states) <= Cardinality(self.states)

\* automerge() has returned after at least two merges of which the first
\* made the second possible: the receiver had a single equivalent pair
C9_Witness ==
    /\ pc = <<"automerge", "returned">>
    /\ Cardinality(MergePairs(self)) = 2
    /\ Cardinality(result.states) + 2 <= Cardinality(self.states)

\* the sequences of length at most MaxWordLen accepted from state
LangFrom(M, state) ==
    {w \in Words(M.alphabet, MaxWordLen) : AcceptsFrom(M, state, w)}

\* the classes a partition-refinement minimizer makes of M's states
StateLanguages(M) == {LangFrom(M, state) : state \in M.states}

C11_Terminates ==
    /\ [][pc = <<"automerge", "loop">> /\ new' # new =>
              Cardinality(new'.states) = Cardinality(new.states) - 1]_vars
    /\ [](pc = <<"automerge", "loop">> =>
              /\ Cardinality(new.states) >= 1
              /\ Cardinality(new.states) <= Cardinality(self.states))
    /\ <>(pc = <<"automerge", "returned">>)

\* automerge() has returned after |states| - 1 merges: a receiver with the
\* most states came down to one
C11_Witness ==
    /\ pc = <<"automerge", "returned">>
    /\ Cardinality(self.states) = MaxMergeStates
    /\ Cardinality(result.states) = 1

C13_AlphabetPrecondition ==
    pc[1] \in BinaryOps /\ pc[2] # "call" =>
        IF self.alphabet # other.alphabet
        THEN /\ pc[2] = "raised"
             /\ raised = "Exception"
             /\ new = NoFsm
             /\ result = NoFsm
        ELSE /\ pc[2] # "raised"
             /\ raised = "none"

\* an intersection has raised for operands of which the receiver's alphabet
\* is within the other's
C13_Witness ==
    /\ pc = <<"and", "raised">>
    /\ raised = "Exception"
    /\ self.alphabet \subseteq other.alphabet
    /\ self.alphabet # other.alphabet

\* C14: the replace() of an iteration of automerge(), which merges two
\* distinct states that equivalent() relates, returns an automaton accepting
\* the same sequences; so does automerge(), whatever pairs it found.
C14_LanguagePreserved ==
    /\ [][pc = <<"automerge", "loop">> /\ pc' = pc =>
              LangFrom(new', new'.initial) = LangFrom(new, new.initial)]_vars
    /\ [](pc = <<"automerge", "returned">> =>
              LangFrom(result, result.initial) = LangFrom(self, self.initial))

\* automerge() has returned after at least two merges, with more than one
\* pair to start from, for a receiver that accepts some sequences and rejects
\* others
C14_Witness ==
    /\ pc = <<"automerge", "returned">>
    /\ Cardinality(MergePairs(self)) > 2
    /\ Cardinality(result.states) + 2 <= Cardinality(self.states)
    /\ LangFrom(self, self.initial) # {}
    /\ LangFrom(self, self.initial) # Words(self.alphabet, MaxWordLen)

\* C15: when the backward substitution of pattern() has finished, the first
\* equation is the one of the final states and its lefts has no key but
\* outside; what pattern() returns is that entry, or nothing without it.
C15_OnlyOutside ==
    /\ pc \in {<<"pattern", "filled">>, <<"pattern", "returned">>} =>
           /\ equations[1].right = self.finals
           /\ DOMAIN equations[1].lefts \subseteq {Outside}
    /\ pc = <<"pattern", "returned">> =>
           result = (IF Outside \in DOMAIN equations[1].lefts
                     THEN equations[1].lefts[Outside]
                     ELSE LegoNothing)

\* the substitution has finished over at least three equations, one of them
\* with a loop on its own right side; the first equation began with two
\* state-sets as its lefts and without outside, and ends with outside alone
C15_Witness ==
    /\ pc = <<"pattern", "filled">>
    /\ Len(equations) >= 3
    /\ Outside \notin DOMAIN Equation(self.finals, self).lefts
    /\ Cardinality(DOMAIN Equation(self.finals, self).lefts) >= 2
    /\ \E k \in 1..Len(equations) :
           equations[k].right \in DOMAIN Equation(equations[k].right, self).lefts
    /\ DOMAIN equations[1].lefts = {Outside}

=============================================================================
